---- MODULE Spec2Model ----
(***************************************************************************)
(* A model of the intellidocs retrieval pipeline: the word-window chunker  *)
(* (utils/chunker.py), the flat inner-product index and top-k retrieval    *)
(* (utils/faiss_index.py), the embedding wrappers (utils/embedder.py), the *)
(* text extractors (utils/extractor.py) and the request handler            *)
(* hackrx_webhook (app.py).                                                *)
(*                                                                         *)
(* Text is a sequence of characters over {"w", " "}: "w" is a word         *)
(* character and " " a whitespace character.  Vectors are integer pairs;   *)
(* a normalised vector is kept in fixed point with Unit = 1.0, and the     *)
(* vectors used all have an integer norm, so normalisation is exact.       *)
(***************************************************************************)
EXTENDS Integers, Sequences, FiniteSets, TLC

VARIABLES
    pc,              \* position of the running call
    text,            \* chunk_text: argument text
    chunk_size,      \* chunk_text: argument chunk_size
    overlap,         \* chunk_text: argument overlap
    min_chunk_size,  \* chunk_text: argument min_chunk_size
    chunks,          \* chunk_text: returned list
    loop_words,      \* chunk_text: local words
    loop_start,      \* chunk_text: local start
    loop_chunk_id,   \* chunk_text: local chunk_id
    loop_windows,    \* chunk_text: number of loop iterations run so far
    all_chunks,      \* the chunk collection handed to embedding and retrieval
    embeddings,      \* the chunk embeddings (one vector per chunk)
    index,           \* the index built by create_faiss_index, or None
    query_embedding, \* the query vector
    k,               \* retrieve_top_k_chunks: argument k
    tie_order,       \* order in which the index search returns equal scores
    top_chunks,      \* retrieve_top_k_chunks: returned list
    query,           \* hackrx_webhook: the form field "query"
    files,           \* hackrx_webhook: the uploaded documents
    doc_i,           \* hackrx_webhook: position of the document loop
    calls,           \* hackrx_webhook: the collaborator calls made, in order
    response         \* hackrx_webhook: the response returned

loop_vars == <<loop_words, loop_start, loop_chunk_id, loop_windows>>
chunker_vars == <<text, chunk_size, overlap, min_chunk_size, chunks, loop_vars>>
index_vars == <<all_chunks, embeddings, index, query_embedding, k, tie_order,
                top_chunks>>
handler_vars == <<query, files, doc_i, calls, response>>
vars == <<pc, chunker_vars, index_vars, handler_vars>>

\* Python's None, as returned by create_faiss_index
None == [ntotal |-> 0]

Min2(a, b) == IF a <= b THEN a ELSE b

(***************************************************************************)
(* Bounds of the model.                                                    *)
(***************************************************************************)
MaxTextLen == 11
MaxChunkSize == 3
MaxVectors == 3
MaxK == 4
MaxFiles == 2
MaxLoopTextLen == 9

Chars == {"w", " "}
TextsUpTo(n) == UNION {[1..m -> Chars] : m \in 0..n}

(***************************************************************************)
(* String primitives used by chunk_text.                                   *)
(***************************************************************************)
IsSpace(c) == c = " "

RECURSIVE lstrip(_)
lstrip(s) == IF s # <<>> /\ IsSpace(Head(s)) THEN lstrip(Tail(s)) ELSE s

RECURSIVE rstrip(_)
rstrip(s) ==
    IF s # <<>> /\ IsSpace(s[Len(s)]) THEN rstrip(SubSeq(s, 1, Len(s) - 1)) ELSE s

\* str.strip()
strip(s) == rstrip(lstrip(s))

\* re.sub(r'\s+', ' ', s) over the characters lo..hi of s: the first
\* character of every whitespace run becomes one space, the rest go.
RECURSIVE re_sub_ws_range(_, _, _)
re_sub_ws_range(s, lo, hi) ==
    IF lo > hi THEN <<>>
    ELSE IF lo = hi
         THEN IF IsSpace(s[lo])
              THEN (IF lo > 1 /\ IsSpace(s[lo - 1]) THEN <<>> ELSE <<" ">>)
              ELSE <<s[lo]>>
         ELSE LET mid == (lo + hi) \div 2
              IN  re_sub_ws_range(s, lo, mid) \o re_sub_ws_range(s, mid + 1, hi)

re_sub_ws(s) == re_sub_ws_range(s, 1, Len(s))

IsWordStart(s, i) == ~IsSpace(s[i]) /\ (i = 1 \/ IsSpace(s[i - 1]))
IsWordEnd(s, j) == ~IsSpace(s[j]) /\ (j = Len(s) \/ IsSpace(s[j + 1]))
WordEnd(s, i) ==
    CHOOSE j \in i..Len(s) : IsWordEnd(s, j) /\ \A m \in i..(j - 1) : ~IsWordEnd(s, m)

\* the words of s that start at a position in lo..hi, in order
RECURSIVE split_range(_, _, _)
split_range(s, lo, hi) ==
    IF lo > hi THEN <<>>
    ELSE IF lo = hi
         THEN (IF IsWordStart(s, lo) THEN <<SubSeq(s, lo, WordEnd(s, lo))>> ELSE <<>>)
         ELSE LET mid == (lo + hi) \div 2
              IN  split_range(s, lo, mid) \o split_range(s, mid + 1, hi)

\* str.split(): the maximal runs of non-whitespace characters
split(s) == split_range(s, 1, Len(s))

RECURSIVE join_range(_, _, _)
join_range(ws, lo, hi) ==
    IF lo > hi THEN <<>>
    ELSE IF lo = hi THEN ws[lo]
         ELSE LET mid == (lo + hi) \div 2
              IN  join_range(ws, lo, mid) \o <<" ">> \o join_range(ws, mid + 1, hi)

\* " ".join(ws)
join(ws) == join_range(ws, 1, Len(ws))

(***************************************************************************)
(* chunk_text (utils/chunker.py).  Word indices are 0-based as in the      *)
(* source: the window [start, end) is words[start+1 .. end] here.          *)
(***************************************************************************)
IsBlank(t) == t = <<>> \/ strip(t) = <<>>

window_end(start, size, nwords) == Min2(start + size, nwords)

\* faulty variant: the minimum is compared strictly
passes_min_strict(count, minimum) == count > minimum

passes_min(count, minimum) == count >= minimum

\* faulty variant: the id is never advanced
next_chunk_id_stuck(chunk_id, kept) == chunk_id

next_chunk_id(chunk_id, kept) == IF kept THEN chunk_id + 1 ELSE chunk_id

\* faulty variant: start is advanced by nothing
next_start_stuck(start, size, ovl) == start

\* faulty variant: the overlap is forgotten
next_start_no_overlap(start, size, ovl) == start + size

\* faulty variant: the overlap is added instead of subtracted
next_start_plus_overlap(start, size, ovl) == start + size + ovl

next_start(start, size, ovl) == start + size - ovl

Chunk(t, src, id, start, end, count) ==
    [text |-> t, source |-> src, chunk_id |-> id,
     start_word |-> start, end_word |-> end, word_count |-> count]

\* faulty variant: the minimum is compared strictly
small_document_strict(norm, words, src, size, minimum) ==
    IF Len(words) > minimum
    THEN <<Chunk(norm, src, 0, 0, Len(words), Len(words))>>
    ELSE <<>>

\* faulty variant: the minimum is not applied to a small document
small_document_no_min(norm, words, src, size, minimum) ==
    <<Chunk(norm, src, 0, 0, Len(words), Len(words))>>

small_document(norm, words, src, size, minimum) ==
    IF Len(words) >= minimum
    THEN <<Chunk(norm, src, 0, 0, Len(words), Len(words))>>
    ELSE <<>>

RECURSIVE chunk_loop(_, _, _, _, _, _, _, _)
chunk_loop(words, src, size, ovl, minimum, start, chunk_id, acc) ==
    IF ~(start < Len(words)) THEN acc
    ELSE LET end == window_end(start, size, Len(words))
             chunk_words == SubSeq(words, start + 1, end)
             kept == passes_min(Len(chunk_words), minimum)
             acc1 == IF kept
                     THEN Append(acc, Chunk(join(chunk_words), src, chunk_id,
                                            start, end, Len(chunk_words)))
                     ELSE acc
         IN  IF end >= Len(words) THEN acc1
             ELSE chunk_loop(words, src, size, ovl, minimum,
                             next_start(start, size, ovl),
                             next_chunk_id(chunk_id, kept), acc1)

chunk_text(t, src, size, ovl, minimum) ==
    IF IsBlank(t) THEN <<>>
    ELSE LET norm == re_sub_ws(strip(t))
             words == split(norm)
         IN  IF Len(words) <= size
             THEN small_document(norm, words, src, size, minimum)
             ELSE chunk_loop(words, src, size, ovl, minimum, 0, 0, <<>>)

\* number of whitespace-delimited words of a text
WordCount(t) == Len(split(t))

(***************************************************************************)
(* Vectors.  A raw vector is a pair of integers; normalize_L2 maps it to   *)
(* the unit vector of the same direction in fixed point (Unit = 1.0) and   *)
(* leaves the zero vector as it is.  An inner product of two normalised    *)
(* vectors is a score in units of 1 / (Unit * Unit).                       *)
(***************************************************************************)
Unit == 2 * 5
ScoreOne == Unit * Unit

ZeroVector == <<0, 0>>
EmbeddingVectors == {<<0, 0>>, <<1, 0>>, <<2, 0>>, <<0, 1>>, <<3, 4>>, <<-1, 0>>}

Dot(a, b) == a[1] * b[1] + a[2] * b[2]
Norm(v) == CHOOSE r \in 0..Dot(v, v) : r * r = Dot(v, v)

\* faiss.normalize_L2 on one row
normalize_L2(v) ==
    IF Norm(v) = 0 THEN v
    ELSE [i \in 1..Len(v) |-> (Unit * v[i]) \div Norm(v)]

(***************************************************************************)
(* create_faiss_index and retrieve_top_k_chunks (utils/faiss_index.py).    *)
(* The index is the sequence of normalised rows in insertion order;        *)
(* positions are 0-based as in the source.                                 *)
(***************************************************************************)
\* faulty variant: the rows are inserted in reverse order
create_faiss_index_reversed(emb) ==
    IF Len(emb) = 0 THEN None
    ELSE [ntotal |-> Len(emb), d |-> Len(emb[1]),
          xb |-> [j \in 1..Len(emb) |-> normalize_L2(emb[Len(emb) + 1 - j])]]

create_faiss_index(emb) ==
    IF Len(emb) = 0 THEN None
    ELSE [ntotal |-> Len(emb), d |-> Len(emb[1]),
          xb |-> [j \in 1..Len(emb) |-> normalize_L2(emb[j])]]

TieOrders == {"ascending", "descending"}

\* IndexFlatIP.search for one query row: the num best positions by inner
\* product, best first.  The order among equal scores is the library
\* build's: by ascending or by descending position.
IndexFlatIP_search(ix, qv, num, tie) ==
    LET score(p) == Dot(qv, ix.xb[p + 1])
        Before(a, b) ==
            \/ score(a) > score(b)
            \/ /\ score(a) = score(b)
               /\ IF tie = "ascending" THEN a < b ELSE a > b
        Place(p) == 1 + Cardinality({a \in 0..(ix.ntotal - 1) : Before(a, p)})
        At(r) == CHOOSE p \in 0..(ix.ntotal - 1) : Place(p) = r
    IN  [r \in 1..Min2(num, ix.ntotal) |-> [idx |-> At(r), score |-> score(At(r))]]

\* faulty variant: one result too few
num_search_short(kk, nchunks, ntotal) == Min2(kk, Min2(nchunks, ntotal)) - 1

num_search(kk, nchunks, ntotal) == Min2(kk, Min2(nchunks, ntotal))

\* faulty variant: the rank is left 0-based
ranked_chunk_zero_based(chunk, score, rank) ==
    [text |-> chunk.text, source |-> chunk.source, chunk_id |-> chunk.chunk_id,
     start_word |-> chunk.start_word, end_word |-> chunk.end_word,
     word_count |-> chunk.word_count,
     similarity_score |-> score, rank |-> rank]

\* one iteration of the result loop: the copied chunk with score and rank
ranked_chunk(chunk, score, rank) ==
    [text |-> chunk.text, source |-> chunk.source, chunk_id |-> chunk.chunk_id,
     start_word |-> chunk.start_word, end_word |-> chunk.end_word,
     word_count |-> chunk.word_count,
     similarity_score |-> score, rank |-> rank + 1]

\* faulty variant: position 0 is taken for "not found"
valid_index_positive(idx, nchunks) == idx > 0 /\ idx < nchunks

valid_index(idx, nchunks) == idx >= 0 /\ idx < nchunks

retrieve_top_k_chunks(q, ix, chunk_list, kk, tie) ==
    IF ix = None THEN <<>>
    ELSE IF Len(chunk_list) = 0 THEN <<>>
    ELSE LET query_vector == normalize_L2(q)
         IN  IF Len(query_vector) # ix.d THEN <<>>   \* search raises, caught
             ELSE LET found == IndexFlatIP_search(
                                   ix, query_vector,
                                   num_search(kk, Len(chunk_list), ix.ntotal), tie)
                      made == [r \in 1..Len(found) |->
                                 IF valid_index(found[r].idx, Len(chunk_list))
                                 THEN <<ranked_chunk(chunk_list[found[r].idx + 1],
                                                     found[r].score, r - 1)>>
                                 ELSE <<>>]
                      Flat[r \in 0..Len(made)] ==
                          IF r = 0 THEN <<>> ELSE Flat[r - 1] \o made[r]
                  IN  Flat[Len(made)]

\* the (position, score) pairs the search of line 72 returns, or none when
\* retrieve_top_k_chunks returns before or fails in the search
search_hits(q, ix, chunk_list, kk, tie) ==
    IF ix = None \/ Len(chunk_list) = 0 THEN <<>>
    ELSE IF Len(normalize_L2(q)) # ix.d THEN <<>>
    ELSE IndexFlatIP_search(ix, normalize_L2(q),
                            num_search(kk, Len(chunk_list), ix.ntotal), tie)

\* faulty variant: without .copy() the two writes land in the caller's dict
caller_chunk_after_alias(chunk, score, rank) ==
    [text |-> chunk.text, source |-> chunk.source, chunk_id |-> chunk.chunk_id,
     start_word |-> chunk.start_word, end_word |-> chunk.end_word,
     word_count |-> chunk.word_count,
     similarity_score |-> score, rank |-> rank + 1]

\* the caller's chunks[idx] after lines 77-79: the writes go to the dict
\* made by .copy(), so the caller's dict is as it was
caller_chunk_after(chunk, score, rank) == chunk

\* the caller's chunk list after retrieve_top_k_chunks has returned
chunks_after_retrieve(q, ix, chunk_list, kk, tie) ==
    LET found == search_hits(q, ix, chunk_list, kk, tie)
        Hit(p) == {r \in 1..Len(found) :
                      found[r].idx = p /\ valid_index(p, Len(chunk_list))}
    IN  [j \in 1..Len(chunk_list) |->
            IF Hit(j - 1) = {} THEN chunk_list[j]
            ELSE LET r == CHOOSE x \in Hit(j - 1) : TRUE
                 IN  caller_chunk_after(chunk_list[j], found[r].score, r - 1)]

IndexIdle ==
    /\ all_chunks = <<>>
    /\ embeddings = <<>>
    /\ index = None
    /\ query_embedding = <<>>
    /\ k = 0
    /\ tie_order = "unset"
    /\ top_chunks = <<>>

NoResponse == [status |-> 0]

HandlerIdle ==
    /\ query = <<>>
    /\ files = <<>>
    /\ doc_i = 0
    /\ calls = <<>>
    /\ response = NoResponse

LoopIdle ==
    /\ loop_words = <<>>
    /\ loop_start = 0
    /\ loop_chunk_id = 0
    /\ loop_windows = 0

ChunkerIdle ==
    /\ LoopIdle
    /\ text = <<>>
    /\ chunk_size = 0
    /\ overlap = 0
    /\ min_chunk_size = 0
    /\ chunks = <<>>

\* a text of n one-character words separated by single spaces
WordsText(n) == [i \in 1..(2 * n - 1) |-> IF i % 2 = 1 THEN "w" ELSE " "]

(***************************************************************************)
(* SpecIndex: an index is built over 1..MaxVectors vectors with as many    *)
(* aligned chunks (one word per chunk), and searched with every query      *)
(* vector and every k in 1..MaxK.                                          *)
(***************************************************************************)
InitIndex ==
    /\ pc = "index_build"
    /\ ChunkerIdle
    /\ \E n \in 1..MaxVectors :
           /\ embeddings \in [1..n -> EmbeddingVectors]
           /\ all_chunks = chunk_text(WordsText(n), "doc", 1, 0, 1)
    /\ query_embedding \in EmbeddingVectors
    /\ k \in 1..MaxK
    /\ index = None
    /\ tie_order = "unset"
    /\ top_chunks = <<>>
    /\ HandlerIdle

BuildIndex ==
    /\ pc = "index_build"
    /\ index' = create_faiss_index(embeddings)
    /\ pc' = "index_search"
    /\ UNCHANGED <<all_chunks, embeddings, query_embedding, k, tie_order, top_chunks>>
    /\ UNCHANGED chunker_vars
    /\ UNCHANGED handler_vars

RetrieveTopK ==
    /\ pc = "index_search"
    /\ \E tie \in TieOrders :
           /\ tie_order' = tie
           /\ top_chunks' = retrieve_top_k_chunks(query_embedding, index,
                                                  all_chunks, k, tie)
           /\ all_chunks' = chunks_after_retrieve(query_embedding, index,
                                                  all_chunks, k, tie)
    /\ pc' = "index_returned"
    /\ UNCHANGED <<embeddings, index, query_embedding, k>>
    /\ UNCHANGED chunker_vars
    /\ UNCHANGED handler_vars

NextIndex == BuildIndex \/ RetrieveTopK

SpecIndex == InitIndex /\ [][NextIndex]_vars

(***************************************************************************)
(* SpecChunk: chunk_text applied to every bounded text and every parameter *)
(* choice with 1 <= chunk_size, 0 <= overlap < chunk_size and              *)
(* 0 <= min_chunk_size <= chunk_size + 1.                                  *)
(***************************************************************************)
InitChunk ==
    /\ pc = "chunk_call"
    /\ text \in TextsUpTo(MaxTextLen)
    /\ chunk_size \in 1..MaxChunkSize
    /\ overlap \in 0..(chunk_size - 1)
    /\ min_chunk_size \in 0..(chunk_size + 1)
    /\ chunks = <<>>
    /\ LoopIdle
    /\ IndexIdle
    /\ HandlerIdle

CallChunkText ==
    /\ pc = "chunk_call"
    /\ chunks' = chunk_text(text, "doc", chunk_size, overlap, min_chunk_size)
    /\ pc' = "chunk_returned"
    /\ UNCHANGED <<text, chunk_size, overlap, min_chunk_size>>
    /\ UNCHANGED loop_vars
    /\ UNCHANGED index_vars
    /\ UNCHANGED handler_vars

NextChunk == CallChunkText

SpecChunk == InitChunk /\ [][NextChunk]_vars

(***************************************************************************)
(* The text extractors (utils/extractor.py) and extract_text_from_file     *)
(* (app.py).  An upload is a filename and its bytes; the bytes are         *)
(* modelled by whether they are well-formed for their format (a PDF or     *)
(* DOCX that opens, a TXT that is valid UTF-8) and by the text they hold.  *)
(* An extraction outcome is the returned text, or raised = TRUE.           *)
(***************************************************************************)
DefaultChunkSize == 300
DefaultOverlap == 50
DefaultMinChunkSize == 50
RetrieveK == 5

Returns(t) == [raised |-> FALSE, text |-> t]
Raises == [raised |-> TRUE, text |-> <<>>]

\* str.lower() on the filename's extension
lower(ext) == IF ext = ".PDF" THEN ".pdf" ELSE ext

\* filename.lower().endswith(suffix)
lower_endswith(filename, suffix) == lower(filename.ext) = suffix

\* extract_text_from_pdf: any failure to open is caught and gives ""
extract_text_from_pdf(content) ==
    IF content.wellformed THEN strip(content.text \o <<" ">>) ELSE <<>>

\* extract_text_from_docx: any failure to open is caught and gives ""
extract_text_from_docx(content) ==
    IF content.wellformed THEN strip(content.text \o <<" ">>) ELSE <<>>

\* bytes.decode('utf-8')
decode_utf8(content) ==
    IF content.wellformed THEN Returns(content.text) ELSE Raises

extract_text_from_file(content, filename) ==
    IF lower_endswith(filename, ".pdf") THEN Returns(extract_text_from_pdf(content))
    ELSE IF lower_endswith(filename, ".docx")
         THEN Returns(extract_text_from_docx(content))
    ELSE IF lower_endswith(filename, ".txt") THEN decode_utf8(content)
    ELSE Raises

\* the test of line 63: not text or not text.strip()
no_text(t) == t = <<>> \/ strip(t) = <<>>

(***************************************************************************)
(* The embedding wrappers (utils/embedder.py).  model.encode is the        *)
(* external model: it raises, or maps each text to a vector (equal texts   *)
(* to equal vectors).                                                      *)
(***************************************************************************)
ChunkVectors == {<<1, 0>>, <<3, 4>>}
QueryVectors == {<<0, 1>>, <<-1, 0>>}

EncodeRaises == [raised |-> TRUE]
Encoders(texts) ==
    {[raised |-> FALSE, vec |-> f] : f \in [texts -> ChunkVectors]}

generate_embeddings(chunk_list, encode) ==
    IF Len(chunk_list) = 0 THEN <<>>
    ELSE IF encode.raised THEN <<>>
    ELSE [j \in 1..Len(chunk_list) |-> encode.vec[chunk_list[j].text]]

\* outcome of model.encode([query])[0]: a vector, or raised
embed_query(outcome) ==
    IF outcome.raised THEN ZeroVector ELSE outcome.vec

(***************************************************************************)
(* hackrx_webhook (app.py).  Each action is the handler's code up to and   *)
(* including one collaborator call; calls records the collaborator calls   *)
(* made (ok = FALSE when the collaborator itself failed).                  *)
(***************************************************************************)
EmptyText == <<>>
BlankText == <<" ", " ">>
ShortText == <<" ">> \o WordsText(DefaultMinChunkSize - 1)
OneChunkText == WordsText(DefaultMinChunkSize)
LongText == WordsText(2 * (DefaultChunkSize - DefaultOverlap) + DefaultMinChunkSize + 1)

Upload(ext, wellformed, t) ==
    [ext |-> ext, content |-> [wellformed |-> wellformed, text |-> t]]

Uploads ==
    {Upload(".bin", TRUE, OneChunkText),
     Upload(".txt", FALSE, OneChunkText),
     Upload(".txt", TRUE, EmptyText),
     Upload(".txt", TRUE, BlankText),
     Upload(".txt", TRUE, ShortText),
     Upload(".txt", TRUE, OneChunkText),
     Upload(".txt", TRUE, LongText),
     Upload(".pdf", FALSE, OneChunkText),
     Upload(".PDF", TRUE, OneChunkText),
     Upload(".docx", FALSE, OneChunkText),
     Upload(".docx", TRUE, OneChunkText)}

QueryText == <<"w">>

\* the file's name: its position in the upload and its extension
Filename(i, up) == [stem |-> i, ext |-> up.ext]

NoMetadata ==
    [total_documents |-> 0, total_chunks |-> 0, retrieved_chunks |-> 0,
     sources |-> {}]
NoFile == [stem |-> 0, ext |-> ""]

ErrorResponse(status, message, filename) ==
    [status |-> status, message |-> message, filename |-> filename,
     metadata |-> NoMetadata]

AcceptedResponse(llm, n_files, chunk_list, top) ==
    [status |-> 200, message |-> "Relevant information found and processed",
     filename |-> NoFile, llm |-> llm,
     metadata |-> [total_documents |-> n_files,
                   total_chunks |-> Len(chunk_list),
                   retrieved_chunks |-> Len(top),
                   sources |-> {top[r].source : r \in 1..Len(top)}]]

Call(op, arg, ok) == [op |-> op, arg |-> arg, ok |-> ok]

\* whether the extraction collaborator itself succeeded on an upload
ExtractionSucceeds(up) ==
    /\ lower(up.ext) \in {".pdf", ".docx", ".txt"}
    /\ up.content.wellformed

Init ==
    /\ pc = "request"
    /\ ChunkerIdle
    /\ IndexIdle
    /\ query \in {<<>>, QueryText}
    /\ \E n \in 0..MaxFiles : files \in [1..n -> Uploads]
    /\ doc_i = 0
    /\ calls = <<>>
    /\ response = NoResponse

\* lines 40-54
Validate ==
    /\ pc = "request"
    /\ IF query = <<>>
       THEN /\ response' = ErrorResponse(400, "Missing query in form-data", NoFile)
            /\ pc' = "done"
            /\ UNCHANGED doc_i
       ELSE IF Len(files) = 0
       THEN /\ response' = ErrorResponse(400, "No documents uploaded", NoFile)
            /\ pc' = "done"
            /\ UNCHANGED doc_i
       ELSE /\ doc_i' = 1
            /\ pc' = "documents"
            /\ UNCHANGED response
    /\ UNCHANGED <<query, files, calls>>
    /\ UNCHANGED chunker_vars
    /\ UNCHANGED index_vars

\* lines 56-77: one iteration of the document loop
ProcessDocument ==
    /\ pc = "documents"
    /\ doc_i <= Len(files)
    /\ LET up == files[doc_i]
           filename == Filename(doc_i, up)
           got == extract_text_from_file(up.content, filename)
       IN  /\ calls' = Append(calls, Call("extract", filename, ExtractionSucceeds(up)))
           /\ IF got.raised
              THEN /\ response' = ErrorResponse(500, "Failed to process", filename)
                   /\ pc' = "done"
                   /\ UNCHANGED <<doc_i, all_chunks>>
              ELSE IF no_text(got.text)
              THEN /\ doc_i' = doc_i + 1
                   /\ UNCHANGED <<pc, response, all_chunks>>
              ELSE /\ all_chunks' = all_chunks \o
                           chunk_text(got.text, filename, DefaultChunkSize,
                                      DefaultOverlap, DefaultMinChunkSize)
                   /\ doc_i' = doc_i + 1
                   /\ UNCHANGED <<pc, response>>
    /\ UNCHANGED <<query, files>>
    /\ UNCHANGED chunker_vars
    /\ UNCHANGED <<embeddings, index, query_embedding, k, tie_order, top_chunks>>

\* lines 79-80
NoContent ==
    /\ pc = "documents"
    /\ doc_i > Len(files)
    /\ all_chunks = <<>>
    /\ response' = ErrorResponse(400, "No text could be extracted from any documents",
                                 NoFile)
    /\ pc' = "done"
    /\ UNCHANGED <<query, files, doc_i, calls>>
    /\ UNCHANGED chunker_vars
    /\ UNCHANGED index_vars

\* lines 84-93
GenerateEmbeddings ==
    /\ pc = "documents"
    /\ doc_i > Len(files)
    /\ all_chunks # <<>>
    /\ \E encode \in {EncodeRaises}
                     \cup Encoders({all_chunks[j].text : j \in 1..Len(all_chunks)}) :
           /\ embeddings' = generate_embeddings(all_chunks, encode)
           /\ calls' = Append(calls, Call("embed_batch", NoFile, ~encode.raised))
    /\ IF Len(embeddings') = 0
       THEN /\ response' = ErrorResponse(500, "Failed to generate embeddings", NoFile)
            /\ pc' = "done"
       ELSE /\ pc' = "build_index"
            /\ UNCHANGED response
    /\ UNCHANGED <<query, files, doc_i>>
    /\ UNCHANGED chunker_vars
    /\ UNCHANGED <<all_chunks, index, query_embedding, k, tie_order, top_chunks>>

\* lines 96-104
BuildFaissIndex ==
    /\ pc = "build_index"
    /\ index' = create_faiss_index(embeddings)
    /\ calls' = Append(calls, Call("build_index", NoFile, TRUE))
    /\ IF index' = None
       THEN /\ response' = ErrorResponse(500, "Failed to build FAISS index", NoFile)
            /\ pc' = "done"
       ELSE /\ pc' = "embed_query"
            /\ UNCHANGED response
    /\ UNCHANGED <<query, files, doc_i>>
    /\ UNCHANGED chunker_vars
    /\ UNCHANGED <<all_chunks, embeddings, query_embedding, k, tie_order, top_chunks>>

\* lines 107-112: embed_query never raises, so the except branch is dead
EmbedQuery ==
    /\ pc = "embed_query"
    /\ \E outcome \in {EncodeRaises} \cup {[raised |-> FALSE, vec |-> v] : v \in QueryVectors} :
           /\ query_embedding' = embed_query(outcome)
           /\ calls' = Append(calls, Call("embed_query", NoFile, ~outcome.raised))
    /\ pc' = "retrieve"
    /\ UNCHANGED <<query, files, doc_i, response>>
    /\ UNCHANGED chunker_vars
    /\ UNCHANGED <<all_chunks, embeddings, index, k, tie_order, top_chunks>>

\* lines 115-128
Retrieve ==
    /\ pc = "retrieve"
    /\ k' = RetrieveK
    /\ \E tie \in TieOrders :
           /\ tie_order' = tie
           /\ top_chunks' = retrieve_top_k_chunks(query_embedding, index,
                                                  all_chunks, RetrieveK, tie)
           /\ all_chunks' = chunks_after_retrieve(query_embedding, index,
                                                  all_chunks, RetrieveK, tie)
    /\ calls' = Append(calls, Call("search", NoFile, TRUE))
    /\ IF Len(top_chunks') = 0
       THEN /\ response' = ErrorResponse(404, "No relevant information found in documents",
                                         NoFile)
            /\ pc' = "done"
       ELSE /\ pc' = "llm"
            /\ UNCHANGED response
    /\ UNCHANGED <<query, files, doc_i>>
    /\ UNCHANGED chunker_vars
    /\ UNCHANGED <<embeddings, index, query_embedding>>

\* lines 131-157: call_gemini catches its own failures and returns a
\* structured result in every case
LLMResults == {"parsed", "fallback", "error"}

CallLLM ==
    /\ pc = "llm"
    /\ \E llm \in LLMResults :
           /\ response' = AcceptedResponse(llm, Len(files), all_chunks, top_chunks)
           /\ calls' = Append(calls, Call("llm", NoFile, llm # "error"))
    /\ pc' = "done"
    /\ UNCHANGED <<query, files, doc_i>>
    /\ UNCHANGED chunker_vars
    /\ UNCHANGED index_vars

Next ==
    \/ Validate
    \/ ProcessDocument
    \/ NoContent
    \/ GenerateEmbeddings
    \/ BuildFaissIndex
    \/ EmbedQuery
    \/ Retrieve
    \/ CallLLM

Spec == Init /\ [][Next]_vars

(***************************************************************************)
(* SpecLoop: chunk_text run statement by statement, one action for the     *)
(* code before the loop and one per test of the while condition with the   *)
(* iteration that follows it.  The inputs are every text of at most        *)
(* MaxLoopTextLen characters with the parameter choices of SpecChunk, and  *)
(* the long document with the default parameters.  A call runs to its      *)
(* return without interruption, hence the weak fairness.                   *)
(***************************************************************************)
InitLoop ==
    /\ pc = "loop_call"
    /\ ChunkerIdle
    /\ IndexIdle
    /\ HandlerIdle

\* the arguments of a call: a short text with small parameters, or a long
\* text with the default parameters of line 7
LoopArguments ==
    {<<t, size, ovl, minimum>> :
         t \in TextsUpTo(MaxLoopTextLen), size \in 1..MaxChunkSize,
         ovl \in (0 - 1)..(MaxChunkSize - 1), minimum \in 0..(MaxChunkSize + 1)}
    \cup {<<LongText, DefaultChunkSize, DefaultOverlap, DefaultMinChunkSize>>}

\* lines 7 and 21-44: the call binds the arguments and runs up to the loop
EnterChunkText ==
    /\ pc = "loop_call"
    /\ \E a \in LoopArguments :
         /\ a[3] < a[2]
         /\ a[4] <= a[2] + 1
         /\ text' = a[1]
         /\ chunk_size' = a[2]
         /\ overlap' = a[3]
         /\ min_chunk_size' = a[4]
         /\ IF IsBlank(a[1])
            THEN /\ chunks' = <<>>
                 /\ pc' = "loop_returned"
                 /\ UNCHANGED loop_vars
            ELSE LET norm == re_sub_ws(strip(a[1]))
                     words == split(norm)
                 IN  IF Len(words) <= a[2]
                     THEN /\ chunks' = small_document(norm, words, "doc", a[2], a[4])
                          /\ pc' = "loop_returned"
                          /\ UNCHANGED loop_vars
                     ELSE /\ loop_words' = words
                          /\ chunks' = <<>>
                          /\ loop_start' = 0
                          /\ loop_chunk_id' = 0
                          /\ pc' = "loop_head"
                          /\ UNCHANGED loop_windows
    /\ UNCHANGED index_vars
    /\ UNCHANGED handler_vars

\* lines 46-68: the while test and, when it holds, one iteration.  The
\* iteration count cannot pass the text's length while start grows, which
\* caps the counter.
LoopIteration ==
    /\ pc = "loop_head"
    /\ loop_windows <= Len(text)
    /\ IF ~(loop_start < Len(loop_words))
       THEN /\ pc' = "loop_returned"
            /\ UNCHANGED <<chunks, loop_vars>>
       ELSE LET end == window_end(loop_start, chunk_size, Len(loop_words))
                chunk_words == SubSeq(loop_words, loop_start + 1, end)
                kept == passes_min(Len(chunk_words), min_chunk_size)
            IN  /\ loop_windows' = loop_windows + 1
                /\ chunks' = IF kept
                             THEN Append(chunks,
                                         Chunk(join(chunk_words), "doc", loop_chunk_id,
                                               loop_start, end, Len(chunk_words)))
                             ELSE chunks
                /\ loop_chunk_id' = next_chunk_id(loop_chunk_id, kept)
                /\ IF end >= Len(loop_words)
                   THEN /\ pc' = "loop_returned"
                        /\ UNCHANGED loop_start
                   ELSE /\ loop_start' = next_start(loop_start, chunk_size, overlap)
                        /\ pc' = "loop_head"
                /\ UNCHANGED loop_words
    /\ UNCHANGED <<text, chunk_size, overlap, min_chunk_size>>
    /\ UNCHANGED index_vars
    /\ UNCHANGED handler_vars

NextLoop == EnterChunkText \/ LoopIteration

\* a loop that can take its next iteration takes it
SpecLoop == InitLoop /\ [][NextLoop]_vars /\ WF_vars(LoopIteration)

(***************************************************************************)
(* Properties of chunk_text, checked under SpecChunk.                      *)
(***************************************************************************)
Returned == pc = "chunk_returned"
W == WordCount(text)
Step == chunk_size - overlap

Covered == {i \in 0..(W - 1) :
               \E j \in 1..Len(chunks) :
                   chunks[j].start_word <= i /\ i < chunks[j].end_word}
Uncovered == (0..(W - 1)) \ Covered

\* what C2 promises for a document of at most chunk_size words
SmallDocumentResult ==
    IF W >= min_chunk_size
    THEN /\ Len(chunks) = 1
         /\ chunks[1].start_word = 0
         /\ chunks[1].end_word = W
    ELSE chunks = <<>>

\* C2 as stated: for every non-empty text with W words, W <= chunk_size,
\* chunk_text returns exactly one chunk spanning words 0..W when
\* W >= min_chunk_size and no chunk otherwise.
C2_Original ==
    (Returned /\ text # <<>> /\ W <= chunk_size) => SmallDocumentResult

\* C2 amended: for every text with at least one word (W >= 1, so neither
\* empty nor whitespace-only) and W <= chunk_size, chunk_text returns
\* exactly one chunk spanning words 0..W when W >= min_chunk_size and no
\* chunk otherwise.
C2_SmallDocument ==
    (Returned /\ W >= 1 /\ W <= chunk_size) => SmallDocumentResult

C2_Witness ==
    /\ Returned /\ W >= 2 /\ W <= chunk_size /\ W >= min_chunk_size
    /\ min_chunk_size >= 1
    /\ Len(text) > 2 * W - 1
    /\ Len(chunks) = 1

\* C3: for W > chunk_size the j-th returned chunk (0-based) starts at word
\* j * (chunk_size - overlap), and every returned chunk has at least
\* min_chunk_size words.
C3_StartWords ==
    (Returned /\ W > chunk_size) =>
        \A j \in 1..Len(chunks) :
            /\ chunks[j].start_word = (j - 1) * Step
            /\ chunks[j].word_count >= min_chunk_size

C3_Witness ==
    /\ Returned /\ W > chunk_size /\ overlap >= 1
    /\ Len(chunks) >= 3
    /\ chunks[3].start_word = 2 * Step

\* what C4 promises: nothing is uncovered but, possibly, one trailing run
\* of fewer than min_chunk_size words
OnlyShortTailUncovered ==
    \/ Uncovered = {}
    \/ \E r \in 1..(min_chunk_size - 1) : Uncovered = (W - r)..(W - 1)

\* C4 as stated: for W > chunk_size and every chunk_size, overlap,
\* min_chunk_size with overlap < chunk_size, the chunk ranges cover [0, W)
\* except possibly a trailing remainder of fewer than min_chunk_size words.
C4_Original == (Returned /\ W > chunk_size) => OnlyShortTailUncovered

\* C4 amended: the same, for 0 <= overlap < chunk_size and
\* min_chunk_size <= chunk_size.
C4_Coverage ==
    (Returned /\ W > chunk_size /\ min_chunk_size <= chunk_size) =>
        OnlyShortTailUncovered

C4_Witness ==
    /\ Returned /\ W > chunk_size /\ min_chunk_size <= chunk_size
    /\ Len(chunks) >= 2
    /\ Uncovered # {}

\* C5: in every returned sequence each chunk has
\* end_word - start_word = word_count, start_word strictly increases along
\* the sequence, and the j-th chunk (0-based) has chunk_id j.
C5_ChunkInvariant ==
    Returned =>
        /\ \A j \in 1..Len(chunks) :
               /\ chunks[j].end_word - chunks[j].start_word = chunks[j].word_count
               /\ chunks[j].chunk_id = j - 1
        /\ \A j \in 1..(Len(chunks) - 1) :
               chunks[j].start_word < chunks[j + 1].start_word

\* a run in which the last window fell below the minimum and was dropped
C5_Witness ==
    /\ Returned /\ W > chunk_size
    /\ Len(chunks) >= 2
    /\ chunks[Len(chunks)].end_word < W
    /\ chunks[Len(chunks)].chunk_id = Len(chunks) - 1

(***************************************************************************)
(* Properties of the loop of chunk_text, checked under SpecLoop.           *)
(***************************************************************************)
LoopReturned == pc = "loop_returned"
InLoop == pc = "loop_head"
LoopCalled == InLoop \/ LoopReturned

\* ceil(W / (chunk_size - overlap))
MostWindows == (W + Step - 1) \div Step

\* the end of the window that starts at word s
EndOfWindow(s) == Min2(s + chunk_size, W)

\* the start grows strictly from one iteration to the next
StartGrows == (InLoop /\ InLoop') => loop_start' > loop_start

\* the loop goes on only past a window that ends before the document's end
GoesOnBeforeEnd ==
    (InLoop /\ loop_windows >= 1) => EndOfWindow(loop_start - Step) < W

\* the loop returns from a window, one that ends at the document's end
ReturnsAtEnd ==
    (InLoop /\ LoopReturned') =>
        (loop_windows' = loop_windows + 1 /\ EndOfWindow(loop_start) = W)

\* C12 as stated: for chunk_size >= 1 and overlap < chunk_size, chunk_text
\* terminates: start grows strictly from one iteration to the next, the
\* loop stops at the first window whose end reaches the document's end,
\* and at most ceil(W / (chunk_size - overlap)) windows are examined.
C12_Original ==
    /\ [][StartGrows]_vars
    /\ [](LoopCalled => GoesOnBeforeEnd)
    /\ [][ReturnsAtEnd]_vars
    /\ [](LoopCalled => loop_windows <= MostWindows)
    /\ InLoop ~> LoopReturned

\* C12: for chunk_size >= 1 and overlap < chunk_size, chunk_text
\* terminates: start grows strictly from one iteration to the next and at
\* most ceil(W / (chunk_size - overlap)) windows are examined; for
\* 0 <= overlap the loop stops at the first window whose end reaches the
\* document's end.
C12_Termination ==
    /\ [][StartGrows]_vars
    /\ [](LoopCalled => GoesOnBeforeEnd)
    /\ [][overlap >= 0 => ReturnsAtEnd]_vars
    /\ [](LoopCalled => loop_windows <= MostWindows)
    /\ InLoop ~> LoopReturned

C12_Witness ==
    /\ LoopReturned
    /\ overlap >= 1
    /\ loop_windows >= 3
    /\ loop_windows = MostWindows
    /\ loop_start = (loop_windows - 1) * Step
    /\ EndOfWindow(loop_start) = W

\* no window is dropped: a window after the first is started only when its
\* predecessor ended before the document's end, overlap words before that
\* end, so the last window holds more than overlap words, and the returned
\* chunks cover all of [0, W)
NoWindowDropped ==
    /\ Len(chunks) = loop_windows
    /\ \A j \in 2..Len(chunks) :
           /\ chunks[j - 1].end_word < W
           /\ chunks[j].start_word = chunks[j - 1].end_word - overlap
    /\ chunks[Len(chunks)].word_count > overlap
    /\ chunks[Len(chunks)].end_word = W
    /\ Uncovered = {}

\* C13 as stated: for min_chunk_size <= overlap + 1 and min_chunk_size <=
\* chunk_size and a text of W > chunk_size words no window is dropped, the
\* last window holds more than overlap words and the returned chunks cover
\* all of [0, W).
C13_Original ==
    (/\ LoopReturned /\ W > chunk_size
     /\ min_chunk_size <= overlap + 1 /\ min_chunk_size <= chunk_size) =>
        NoWindowDropped

\* C13: for 0 <= overlap, min_chunk_size <= overlap + 1 and min_chunk_size
\* <= chunk_size and a text of W > chunk_size words no window is dropped,
\* the last window holds more than overlap words and the returned chunks
\* cover all of [0, W).
C13_NoTailLoss ==
    (/\ LoopReturned /\ W > chunk_size /\ 0 <= overlap
     /\ min_chunk_size <= overlap + 1 /\ min_chunk_size <= chunk_size) =>
        NoWindowDropped

\* the last window holds exactly overlap + 1 = min_chunk_size words
C13_Witness ==
    /\ LoopReturned /\ W > chunk_size
    /\ min_chunk_size = overlap + 1 /\ min_chunk_size <= chunk_size
    /\ overlap >= 1
    /\ Len(chunks) >= 3
    /\ chunks[Len(chunks)].word_count = min_chunk_size
    /\ NoWindowDropped

(***************************************************************************)
(* Properties of the index, checked under SpecIndex.                       *)
(***************************************************************************)
Retrieved == pc = "index_returned"
NVectors == Len(embeddings)

SameDirection(a, b) == a[1] * b[2] = a[2] * b[1] /\ Dot(a, b) > 0

\* C6: over n >= 1 vectors with n aligned chunks and any k >= 1,
\* retrieve_top_k_chunks returns exactly min(k, n) results in order of
\* non-increasing similarity score, and for k > n every indexed chunk
\* exactly once.
C6_TopK ==
    Retrieved =>
        /\ Len(top_chunks) = Min2(k, NVectors)
        /\ \A r \in 1..(Len(top_chunks) - 1) :
               top_chunks[r].similarity_score >= top_chunks[r + 1].similarity_score
        /\ k > NVectors =>
               \A j \in 1..NVectors :
                   Cardinality({r \in 1..Len(top_chunks) :
                                   top_chunks[r].chunk_id = all_chunks[j].chunk_id}) = 1

C6_Witness ==
    /\ Retrieved /\ k > NVectors /\ NVectors >= 2
    /\ Len(top_chunks) = NVectors
    /\ top_chunks[1].similarity_score > top_chunks[2].similarity_score
    /\ top_chunks[1].chunk_id > top_chunks[2].chunk_id

\* C7 as stated: searching with an indexed vector v_i returns v_i's own
\* position at rank 1 with score 1.0, duplicates and zero vectors included.
C7_Original ==
    Retrieved =>
        \A i \in 1..NVectors :
            embeddings[i] = query_embedding =>
                /\ top_chunks[1].chunk_id = all_chunks[i].chunk_id
                /\ top_chunks[1].similarity_score = ScoreOne

\* C7 amended: searching with an indexed vector v_i that is not the zero
\* vector returns at rank 1, with score 1.0, a position that holds a vector
\* of the same direction as v_i; it is v_i's own position when no other
\* indexed vector has the direction of v_i.
C7_RoundTrip ==
    Retrieved =>
        \A i \in 1..NVectors :
            (embeddings[i] = query_embedding /\ query_embedding # ZeroVector) =>
                /\ top_chunks[1].similarity_score = ScoreOne
                /\ SameDirection(embeddings[top_chunks[1].chunk_id + 1], embeddings[i])
                /\ (\A j \in 1..NVectors :
                        j # i => ~SameDirection(embeddings[j], embeddings[i]))
                   => top_chunks[1].chunk_id = all_chunks[i].chunk_id

C7_Witness ==
    /\ Retrieved /\ NVectors >= 3
    /\ embeddings[3] = query_embedding
    /\ query_embedding # ZeroVector
    /\ ~SameDirection(embeddings[1], embeddings[3])
    /\ ~SameDirection(embeddings[2], embeddings[3])
    /\ top_chunks[1].chunk_id = 2
    /\ top_chunks[1].rank = 1

\* the chunk list handed to retrieve_top_k_chunks under SpecIndex
InputChunks == chunk_text(WordsText(NVectors), "doc", 1, 0, 1)

\* the (position, score) pairs the index search returned
IndexHits ==
    IndexFlatIP_search(index, normalize_L2(query_embedding),
                       Min2(k, NVectors), tie_order)

ChunkFields == {"text", "source", "chunk_id", "start_word", "end_word", "word_count"}

\* C11: the j-th element (1-based) of the result is a copy of
\* chunks[position_j] for the j-th (position, score) pair of the index
\* search, with similarity_score that score and rank j; the ranks are
\* exactly 1..len(result); and the caller's chunk collection is unchanged
\* (no similarity_score or rank in it).
C11_RankAssembly ==
    Retrieved =>
        /\ Len(top_chunks) = Len(IndexHits)
        /\ \A j \in 1..Len(top_chunks) :
               /\ \A f \in ChunkFields :
                      top_chunks[j][f] = InputChunks[IndexHits[j].idx + 1][f]
               /\ top_chunks[j].similarity_score = IndexHits[j].score
               /\ top_chunks[j].rank = j
        /\ all_chunks = InputChunks
        /\ \A j \in 1..Len(all_chunks) : DOMAIN all_chunks[j] = ChunkFields

C11_Witness ==
    /\ Retrieved /\ NVectors >= 3 /\ k = 2
    /\ Len(top_chunks) = 2
    /\ top_chunks[1].chunk_id = 2 /\ top_chunks[1].rank = 1
    /\ top_chunks[2].chunk_id = 0 /\ top_chunks[2].rank = 2
    /\ top_chunks[1].similarity_score > top_chunks[2].similarity_score
    /\ top_chunks[2].similarity_score < 0

(***************************************************************************)
(* Properties of hackrx_webhook, checked under Spec.                       *)
(***************************************************************************)
Done == pc = "done"
Searched == \E j \in 1..Len(calls) : calls[j].op = "search"

\* C1: when the extraction capability fails for an uploaded document, the
\* request is aborted at once with an error response that names the
\* document, and no later document or pipeline step runs.
C1_AbortOnExtractionFailure ==
    \A j \in 1..Len(calls) :
        (calls[j].op = "extract" /\ ~calls[j].ok) =>
            /\ j = Len(calls)
            /\ Done
            /\ response.status = 500
            /\ response.filename = calls[j].arg

ExtractedText(i) ==
    extract_text_from_file(files[i].content, Filename(i, files[i]))

\* every document extracts, and to fewer words than a chunk needs
NothingToChunk ==
    /\ query # <<>>
    /\ Len(files) >= 1
    /\ \A i \in 1..Len(files) :
           /\ ~ExtractedText(i).raised
           /\ WordCount(ExtractedText(i).text) < DefaultMinChunkSize

\* C8: when every document extracts to empty or whitespace-only text, or
\* chunking yields no chunk in total, the handler answers with the
\* no-content error, after extraction was tried on every document, and no
\* embedding, index, search or LLM step runs.
C8_NoContent ==
    NothingToChunk =>
        /\ pc \in {"request", "documents", "done"}
        /\ \A j \in 1..Len(calls) :
               calls[j].op = "extract" /\ calls[j].arg = Filename(j, files[j])
        /\ Done =>
               /\ response.status = 400
               /\ response.message = "No text could be extracted from any documents"
               /\ Len(calls) = Len(files)

C8_Witness ==
    /\ NothingToChunk /\ Done
    /\ Len(files) = 2
    /\ files[1].content.text = ShortText /\ files[1].content.wellformed
    /\ files[2].content.text = BlankText
    /\ response.status = 400

\* C9: when the embedding capability fails on the chunk batch or on the
\* query, the request fails at once with an embedding error response; no
\* search and no LLM call follows.
C9_EmbeddingFailFast ==
    \A j \in 1..Len(calls) :
        (calls[j].op \in {"embed_batch", "embed_query"} /\ ~calls[j].ok) =>
            /\ j = Len(calls)
            /\ Done
            /\ response.status = 500
            /\ response.message \in {"Failed to generate embeddings",
                                     "Failed to embed query"}

AllScoresAtMostZero ==
    \A r \in 1..Len(top_chunks) : top_chunks[r].similarity_score <= 0

\* C10: once chunking produced a chunk and the search ran, retrieval holds
\* between 1 and k ranked chunks whatever the query vector is, and the
\* "no relevant information" response (404) is given only for an empty
\* search result.
C10_RetrievalNeverEmpty ==
    /\ (Searched /\ Len(all_chunks) >= 1) =>
           (Len(top_chunks) >= 1 /\ Len(top_chunks) <= RetrieveK)
    /\ response.status = 404 => (Searched /\ Len(top_chunks) = 0)

C10_Witness ==
    /\ Done /\ response.status = 200
    /\ Len(all_chunks) > RetrieveK
    /\ Len(top_chunks) = RetrieveK
    /\ AllScoresAtMostZero
    /\ query_embedding # ZeroVector

====
